---- MODULE Spec2Model ----
(***************************************************************************)
(* A model of run.py, the daily stock-sentiment pipeline: RSS ingestion,   *)
(* deduplication, per-article classification, aggregation, ranking, the    *)
(* top_lists.json write, the narrative call and the report write.          *)
(*                                                                         *)
(* Text is a sequence of one-character strings, so that strip() and        *)
(* lower() are computed; a url and a timestamp are only ever compared, and *)
(* are plain strings. The snippet and full_text fields of an article only  *)
(* feed the request text sent to the classifier, whose answer is an input  *)
(* of the model; they are left out.                                        *)
(***************************************************************************)
EXTENDS Integers, Sequences, FiniteSets, TLC

VARIABLES
  pc,           \* where the script is: "ingest", "classify", ..., "done"
  run,          \* 1 for the first execution of the script, 2 for a rerun
  nfeeds,       \* number of urls read from feeds.txt
  fi,           \* index of the next feed of the loop at line 52
  articles,     \* the list `articles`
  ai,           \* index of the next article of the loop at line 84
  records,      \* the list `records`
  parse_calls,  \* article indexes client.responses.parse was called for, in order
  skipped,      \* article indexes whose iteration ended in the except branch
  agg,          \* the aggregate table `agg`, rows in index order (<<>> before line 116)
  pos_top,      \* `pos_top`
  neg_top,      \* `neg_top`
  narr_calls,   \* number of client.responses.create calls of this run
  report_text,  \* `report_text` (<<>> before line 144)
  top_lists,    \* the file top_lists.json: the chunks written to it (<<>>: absent)
  reports,      \* the files daily_reports/<day>.md: day -> chunks written
  status,       \* "running", "exit0" (sys.exit(0)), "done", "crashed"
  failure,      \* the uncaught exception of a crashed run ("none" otherwise)
  before,       \* the files as they were when the current run started
  first,        \* the files as the first run left them, and its day
  day,          \* the Stockholm calendar day of the current run
  feed_log,     \* what each feed returned in the first run
  resp_log,     \* what each classification call returned in the first run
  narr_log      \* what the narrative call returned in the first run (<<>>: not called)

vars == <<pc, run, nfeeds, fi, articles, ai, records, parse_calls, skipped, agg,
          pos_top, neg_top, narr_calls, report_text, top_lists, reports, status, failure,
          before, first, day, feed_log, resp_log, narr_log>>

(***************************************************************************)
(* Program constants.                                                      *)
(***************************************************************************)
FeedCap == 50
DedupCap == 200
TopN == 10

(***************************************************************************)
(* Helpers on sequences.                                                   *)
(***************************************************************************)
Min(a, b) == IF a <= b THEN a ELSE b

\* s[:n]
Take(s, n) == SubSeq(s, 1, Min(n, Len(s)))

\* the sequence s, held as a list of its values
AsList(s) == s \o <<>>

Get(d, f, default) == IF f \in DOMAIN d THEN d[f] ELSE default

(***************************************************************************)
(* str.strip() and str.lower() on the characters the model uses.           *)
(***************************************************************************)
IsSpace(c) == c = " "

RECURSIVE LStrip(_)
LStrip(s) == IF s # <<>> /\ IsSpace(Head(s)) THEN LStrip(Tail(s)) ELSE s

RECURSIVE RStrip(_)
RStrip(s) ==
  IF s # <<>> /\ IsSpace(s[Len(s)]) THEN RStrip(SubSeq(s, 1, Len(s) - 1)) ELSE s

Strip(s) == RStrip(LStrip(s))

LowerChar(c) ==
  CASE c = "A" -> "a"
    [] c = "B" -> "b"
    [] c = "K" -> "k"
    [] c = "V" -> "v"
    [] OTHER -> c

Lower(s) == [i \in 1..Len(s) |-> LowerChar(s[i])]

(***************************************************************************)
(* Feed ingestion, lines 51-69. What feedparser.parse returns for a url is *)
(* an input: it raises, or it gives the feed's own fields and its entries. *)
(* An entry is a dict of strings; a field it lacks is absent from the      *)
(* record. Reading the fields of such an entry does not raise, so a feed   *)
(* fails as a whole, in the call at line 54.                               *)
(***************************************************************************)
ArticleOf(feed, e) ==
  [source       |-> Get(feed, "title", "RSS"),
   url          |-> Get(e, "link", ""),
   published_at |-> IF Get(e, "published", "") # ""
                      THEN Get(e, "published", "")
                      ELSE Get(e, "updated", ""),
   title        |-> Get(e, "title", <<>>)]

\* ArticlesOf without the [:50] slice
ArticlesOfAllEntries(o) ==
  [j \in 1..Len(o.entries) |-> ArticleOf(o.feed, o.entries[j])]

\* the articles one feed appends: feed.entries[:50], in entry order
ArticlesOf(o) ==
  [j \in 1..Len(Take(o.entries, FeedCap)) |-> ArticleOf(o.feed, o.entries[j])]

Raised == [raises |-> TRUE]

Parsed(feed, entries) == [raises |-> FALSE, feed |-> feed, entries |-> entries]

\* one iteration of the loop at line 52; a rerun is given what the first run was
FetchFeedFrom(Outcomes) ==
  /\ pc = "ingest"
  /\ fi <= nfeeds
  /\ \E o \in (IF run = 1 THEN Outcomes ELSE {feed_log[fi]}) :
       /\ articles' = IF o.raises THEN articles ELSE articles \o ArticlesOf(o)
       /\ feed_log' = IF run = 1 THEN Append(feed_log, o) ELSE feed_log
  /\ fi' = fi + 1
  /\ UNCHANGED <<pc, run, nfeeds, ai, records, parse_calls, skipped, agg, pos_top,
                 neg_top, narr_calls, report_text, top_lists, reports, status,
                 failure, before, first, day, resp_log, narr_log>>

(***************************************************************************)
(* Deduplication, lines 71-80.                                             *)
(***************************************************************************)
\* DedupKey on the title as written
DedupKeyVerbatim(a) == <<a.title, a.url>>

DedupKey(a) == <<Lower(Strip(a.title)), a.url>>

\* one iteration of the loop at line 74 on the pair of `seen` and `uniq`
DedupStep(st, a) ==
  IF DedupKey(a) \in st.seen
    THEN st
    ELSE [seen |-> st.seen \cup {DedupKey(a)}, uniq |-> Append(st.uniq, a)]

\* the iterations for arts[lo..hi] in order, started from st. The range is
\* halved only to keep the evaluation shallow; the test on the first half's
\* result, which always holds, has that half evaluated before the second.
RECURSIVE DedupLoop(_, _, _, _)
DedupLoop(arts, lo, hi, st) ==
  IF lo > hi THEN st
  ELSE IF lo = hi THEN DedupStep(st, arts[lo])
  ELSE LET half == DedupLoop(arts, lo, (lo + hi) \div 2, st)
       IN  IF Len(half.uniq) <= hi
             THEN DedupLoop(arts, (lo + hi) \div 2 + 1, hi, half)
             ELSE half

\* lines 72-80
Deduplicated(arts) ==
  Take(DedupLoop(arts, 1, Len(arts), [seen |-> {}, uniq |-> <<>>]).uniq, DedupCap)

Dedup ==
  /\ pc = "ingest"
  /\ fi > nfeeds
  /\ articles' = Deduplicated(articles)
  /\ pc' = "classify"
  /\ UNCHANGED <<run, nfeeds, fi, ai, records, parse_calls, skipped, agg, pos_top,
                 neg_top, narr_calls, report_text, top_lists, reports, status,
                 failure, before, first, day, feed_log, resp_log, narr_log>>

(***************************************************************************)
(* Classification, lines 83-107. A response of the service is an input:    *)
(* the call raises, or resp.output_parsed is None, or it is a dict. An     *)
(* item of "extractions" that is not a dict makes ex.update raise.         *)
(***************************************************************************)
NoneValue == [none |-> TRUE]

NonDict == [nondict |-> TRUE]

IsDict(x) == "nondict" \notin DOMAIN x

Response(parsed) == [raises |-> FALSE, output_parsed |-> parsed]

\* resp.output_parsed or {"extractions": []}: None and {} are falsy
DataOf(resp) ==
  IF "none" \in DOMAIN resp.output_parsed \/ DOMAIN resp.output_parsed = {}
    THEN [extractions |-> <<>>]
    ELSE resp.output_parsed

Backrefs == {"source", "url", "published_at", "title"}

\* ex.update({...}) at lines 99-104
Updated(ex, art) ==
  [f \in DOMAIN ex \cup Backrefs |-> IF f \in Backrefs THEN art[f] ELSE ex[f]]

\* index of the first item whose update raises (0: none does)
FirstNonDict(exs) ==
  IF \E j \in 1..Len(exs) : ~IsDict(exs[j])
    THEN CHOOSE j \in 1..Len(exs) :
           ~IsDict(exs[j]) /\ \A k \in 1..(j - 1) : IsDict(exs[k])
    ELSE 0

\* the records the loop at line 98 appended before it ended or raised
Appended(exs, art) ==
  LET n == IF FirstNonDict(exs) = 0 THEN Len(exs) ELSE FirstNonDict(exs) - 1
  IN  [j \in 1..n |-> Updated(exs[j], art)]

\* whether the try block of an article ends in the except branch
Raises(resp) ==
  resp.raises \/ FirstNonDict(Get(DataOf(resp), "extractions", <<>>)) # 0

\* one iteration of the loop at line 84
ClassifyFrom(Responses) ==
  /\ pc = "classify"
  /\ ai <= Len(articles)
  /\ \E resp \in (IF run = 1 THEN Responses ELSE {resp_log[ai]}) :
       /\ records' =
            IF resp.raises THEN records
            ELSE records \o Appended(Get(DataOf(resp), "extractions", <<>>),
                                     articles[ai])
       /\ skipped' = IF Raises(resp) THEN skipped \cup {ai} ELSE skipped
       /\ resp_log' = IF run = 1 THEN Append(resp_log, resp) ELSE resp_log
  /\ parse_calls' = Append(parse_calls, ai)
  /\ ai' = ai + 1
  /\ UNCHANGED <<pc, run, nfeeds, fi, articles, agg, pos_top, neg_top, narr_calls,
                 report_text, top_lists, reports, status, failure, before, first,
                 day, feed_log, narr_log>>

\* CheckRecords without the early exit of lines 109-111
CheckRecordsNoExit ==
  /\ pc = "classify"
  /\ ai > Len(articles)
  /\ pc' = "aggregate"
  /\ UNCHANGED <<run, nfeeds, fi, articles, ai, records, parse_calls, skipped, agg,
                 pos_top, neg_top, narr_calls, report_text, top_lists, reports,
                 status, failure, before, first, day, feed_log, resp_log, narr_log>>

\* lines 109-111
CheckRecords ==
  /\ pc = "classify"
  /\ ai > Len(articles)
  /\ IF records = <<>>
       THEN pc' = "exited" /\ status' = "exit0"
       ELSE pc' = "aggregate" /\ status' = status
  /\ UNCHANGED <<run, nfeeds, fi, articles, ai, records, parse_calls, skipped, agg,
                 pos_top, neg_top, narr_calls, report_text, top_lists, reports,
                 failure, before, first, day, feed_log, resp_log, narr_log>>

(***************************************************************************)
(* Aggregation, lines 113-120. The DataFrame has a column for every field  *)
(* some record has; a record that lacks the field holds NaN there.         *)
(***************************************************************************)
HasColumn(df, c) == \E i \in 1..Len(df) : c \in DOMAIN df[i]

\* line 115: the ticker (NaN filled with "") where it is not "", else the
\* lowercased company
KeyOf(r) ==
  IF Get(r, "ticker", <<>>) # <<>> THEN r.ticker ELSE Lower(r.company)

\* the characters of the model in code point order
Chars ==
  <<" ", "-", "0", "1", "2", "3", "4", "5", "6", "7", "8", "9",
    "A", "B", "K", "V", "a", "b", "k", "v">>

Code(c) == CHOOSE i \in 1..Len(Chars) : Chars[i] = c

\* s < t for Python strings
RECURSIVE LexLess(_, _)
LexLess(s, t) ==
  IF t = <<>> THEN FALSE
  ELSE IF s = <<>> THEN TRUE
  ELSE IF Head(s) # Head(t) THEN Code(Head(s)) < Code(Head(t))
  ELSE LexLess(Tail(s), Tail(t))

KeysOf(df) == {KeyOf(df[i]) : i \in 1..Len(df)}

StancesOf(df) == {df[i].stance : i \in 1..Len(df)}

\* aggfunc="count" of the company values of one key and stance
CountOf(df, k, s) ==
  Cardinality({i \in 1..Len(df) : KeyOf(df[i]) = k /\ df[i].stance = s})

\* one row of the pivot table: its key, and a column per stance that occurs
PivotRow(df, k) ==
  [c \in {"key"} \cup StancesOf(df) |-> IF c = "key" THEN k ELSE CountOf(df, k, c)]

\* line 116: one row per key, in ascending key order (the group index, reset)
PivotTable(df) ==
  LET keys == KeysOf(df)
      rank(k) == 1 + Cardinality({k2 \in keys : LexLess(k2, k)})
  IN  [i \in 1..Cardinality(keys) |-> PivotRow(df, CHOOSE k \in keys : rank(k) = i)]

StanceColumns == {"positive", "negative", "neutral"}

\* lines 117-119
WithStanceColumns(row) ==
  [c \in DOMAIN row \cup StanceColumns |-> IF c \in DOMAIN row THEN row[c] ELSE 0]

\* line 120
WithNet(row) ==
  [c \in DOMAIN row \cup {"net"} |->
     IF c = "net" THEN row.positive - row.negative ELSE row[c]]

AggTable(df) ==
  LET pivot == PivotTable(df)
  IN  [i \in 1..Len(pivot) |-> WithNet(WithStanceColumns(pivot[i]))]

\* lines 114-120; df["ticker"] raises KeyError when no record has a ticker
Aggregate ==
  /\ pc = "aggregate"
  /\ IF HasColumn(records, "ticker")
       THEN /\ agg' = AggTable(records)
            /\ pc' = "rank"
            /\ UNCHANGED <<status, failure>>
       ELSE /\ pc' = "exited"
            /\ status' = "crashed"
            /\ failure' = "KeyError"
            /\ agg' = agg
  /\ UNCHANGED <<run, nfeeds, fi, articles, ai, records, parse_calls, skipped,
                 pos_top, neg_top, narr_calls, report_text, top_lists, reports,
                 before, first, day, feed_log, resp_log, narr_log>>

(***************************************************************************)
(* Ranking, lines 122-123. sort_values on two columns is a stable lexsort: *)
(* rows that tie on both keep the order of the table.                      *)
(***************************************************************************)
\* whether x sorts strictly before y in a column of the given direction
Precedes(x, y, asc) == IF asc THEN x < y ELSE x > y

\* whether row a sorts strictly before row b by the two columns of `by`
SortsBefore(a, b, by, ascending) ==
  \/ Precedes(a[by[1]], b[by[1]], ascending[1])
  \/ a[by[1]] = b[by[1]] /\ Precedes(a[by[2]], b[by[2]], ascending[2])

SortValues(rows, by, ascending) ==
  LET place(i) ==
        1 + Cardinality({j \in 1..Len(rows) :
                           \/ SortsBefore(rows[j], rows[i], by, ascending)
                           \/ ~SortsBefore(rows[i], rows[j], by, ascending) /\ j < i})
  IN  [p \in 1..Len(rows) |-> rows[CHOOSE i \in 1..Len(rows) : place(i) = p]]

PosTop(rows) ==
  Take(SortValues(rows, <<"positive", "net">>, <<FALSE, FALSE>>), TopN)

\* NegTop with net descending, as in PosTop
NegTopNetDescending(rows) ==
  Take(SortValues(rows, <<"negative", "net">>, <<FALSE, FALSE>>), TopN)

NegTop(rows) ==
  Take(SortValues(rows, <<"negative", "net">>, <<FALSE, TRUE>>), TopN)

Rank ==
  /\ pc = "rank"
  /\ pos_top' = PosTop(agg)
  /\ neg_top' = NegTop(agg)
  /\ pc' = "write_top"
  /\ UNCHANGED <<run, nfeeds, fi, articles, ai, records, parse_calls, skipped, agg,
                 narr_calls, report_text, top_lists, reports, status, failure,
                 before, first, day, feed_log, resp_log, narr_log>>

(***************************************************************************)
(* The summary and top_lists.json, lines 125-131. open(..., "wb")          *)
(* truncates: the file holds what this write wrote. generated_at is the    *)
(* instant of the run, later in a rerun.                                   *)
(***************************************************************************)
Summary == [generated_at |-> run, positives |-> pos_top, negatives |-> neg_top]

\* WriteTopLists with the write left for after the narrative call
WriteTopListsDeferred ==
  /\ pc = "write_top"
  /\ pc' = "narrative"
  /\ UNCHANGED <<run, nfeeds, fi, articles, ai, records, parse_calls, skipped, agg,
                 pos_top, neg_top, narr_calls, report_text, top_lists, reports,
                 status, failure, before, first, day, feed_log, resp_log, narr_log>>

WriteTopLists ==
  /\ pc = "write_top"
  /\ top_lists' = <<Summary>>
  /\ pc' = "narrative"
  /\ UNCHANGED <<run, nfeeds, fi, articles, ai, records, parse_calls, skipped, agg,
                 pos_top, neg_top, narr_calls, report_text, reports, status,
                 failure, before, first, day, feed_log, resp_log, narr_log>>

(***************************************************************************)
(* The narrative call, lines 133-144: outside any try, so an exception of  *)
(* client.responses.create ends the run.                                   *)
(***************************************************************************)
\* NarrativeFrom with the failure caught and a fallback report written
NarrativeWithFallback(Outcomes) ==
  /\ pc = "narrative"
  /\ narr_calls' = narr_calls + 1
  /\ \E rep \in (IF run = 1 THEN Outcomes ELSE {narr_log[1]}) :
       /\ narr_log' = IF run = 1 THEN <<rep>> ELSE narr_log
       /\ report_text' = IF rep.raises THEN "no report today" ELSE rep.output_text
  /\ pc' = "write_report"
  /\ UNCHANGED <<run, nfeeds, fi, articles, ai, records, parse_calls, skipped, agg,
                 pos_top, neg_top, top_lists, reports, status, failure, before,
                 first, day, feed_log, resp_log>>

NarrativeFrom(Outcomes) ==
  /\ pc = "narrative"
  /\ narr_calls' = narr_calls + 1
  /\ \E rep \in (IF run = 1 THEN Outcomes ELSE {narr_log[1]}) :
       /\ narr_log' = IF run = 1 THEN <<rep>> ELSE narr_log
       /\ IF rep.raises
            THEN /\ pc' = "exited"
                 /\ status' = "crashed"
                 /\ failure' = "narrative"
                 /\ report_text' = report_text
            ELSE /\ pc' = "write_report"
                 /\ report_text' = rep.output_text
                 /\ UNCHANGED <<status, failure>>
  /\ UNCHANGED <<run, nfeeds, fi, articles, ai, records, parse_calls, skipped, agg,
                 pos_top, neg_top, top_lists, reports, before, first, day,
                 feed_log, resp_log>>

(***************************************************************************)
(* The report file, lines 146-154. open(path, "w") truncates.              *)
(***************************************************************************)
\* WriteReport opening the file in append mode
WriteReportAppending ==
  /\ pc = "write_report"
  /\ reports' = [reports EXCEPT ![day] = Append(@, report_text)]
  /\ pc' = "exited"
  /\ status' = "done"
  /\ UNCHANGED <<run, nfeeds, fi, articles, ai, records, parse_calls, skipped, agg,
                 pos_top, neg_top, narr_calls, report_text, top_lists, failure,
                 before, first, day, feed_log, resp_log, narr_log>>

WriteReport ==
  /\ pc = "write_report"
  /\ reports' = [reports EXCEPT ![day] = <<report_text>>]
  /\ pc' = "exited"
  /\ status' = "done"
  /\ UNCHANGED <<run, nfeeds, fi, articles, ai, records, parse_calls, skipped, agg,
                 pos_top, neg_top, narr_calls, report_text, top_lists, failure,
                 before, first, day, feed_log, resp_log, narr_log>>

(***************************************************************************)
(* Running the script again: memory starts afresh, the files stay. The     *)
(* rerun is given the feed contents and service responses of the first     *)
(* run; its calendar day may be the same or the next.                      *)
(***************************************************************************)
MaxRuns == 2

Days == {"d1", "d2"}

Files == [top_lists |-> top_lists, reports |-> reports]

Rerun ==
  /\ pc = "exited"
  /\ run < MaxRuns
  /\ run' = run + 1
  /\ day' \in Days
  /\ first' = IF run = 1
                THEN [top_lists |-> top_lists, reports |-> reports,
                      day |-> day, status |-> status]
                ELSE first
  /\ before' = Files
  /\ pc' = "ingest"
  /\ fi' = 1
  /\ ai' = 1
  /\ articles' = <<>>
  /\ records' = <<>>
  /\ parse_calls' = <<>>
  /\ skipped' = {}
  /\ agg' = <<>>
  /\ pos_top' = <<>>
  /\ neg_top' = <<>>
  /\ narr_calls' = 0
  /\ report_text' = <<>>
  /\ status' = "running"
  /\ failure' = "none"
  /\ UNCHANGED <<nfeeds, top_lists, reports, feed_log, resp_log, narr_log>>

(***************************************************************************)
(* The state when the script starts: nothing in memory; feeds.txt names    *)
(* up to maxfeeds urls; the output files of an earlier day exist or not.   *)
(***************************************************************************)
OldSummary == [generated_at |-> 0, positives |-> <<>>, negatives |-> <<>>]

OldFiles ==
  {[top_lists |-> <<>>, reports |-> [d \in Days |-> <<>>]],
   [top_lists |-> <<OldSummary>>, reports |-> [d \in Days |-> <<"old report">>]]}

InitWith(maxfeeds) ==
  /\ pc = "ingest"
  /\ run = 1
  /\ nfeeds \in 0..maxfeeds
  /\ fi = 1
  /\ ai = 1
  /\ articles = <<>>
  /\ records = <<>>
  /\ parse_calls = <<>>
  /\ skipped = {}
  /\ agg = <<>>
  /\ pos_top = <<>>
  /\ neg_top = <<>>
  /\ narr_calls = 0
  /\ report_text = <<>>
  /\ \E old \in OldFiles :
       /\ top_lists = old.top_lists
       /\ reports = old.reports
       /\ before = old
       /\ first = [top_lists |-> old.top_lists, reports |-> old.reports,
                   day |-> "d1", status |-> "running"]
  /\ status = "running"
  /\ failure = "none"
  /\ day = "d1"
  /\ feed_log = <<>>
  /\ resp_log = <<>>
  /\ narr_log = <<>>

(***************************************************************************)
(* Spec: whole runs and a rerun, on a few short feeds and responses.       *)
(***************************************************************************)
MaxFeeds == 2

Reuters == [title |-> "Reuters"]

\* a feed without title
NoTitle == [x \in {} |-> 0]

E1 == [title |-> <<"A">>, link |-> "u1", published |-> "p1"]

\* the key of E1, written differently
E2 == [title |-> <<" ", "a">>, link |-> "u1", updated |-> "p2"]

E3 == [title |-> <<"b">>, link |-> "u2"]

\* the title of E1 at another url
E4 == [title |-> <<"A">>, link |-> "u2", published |-> "", updated |-> "p3"]

SpecFeeds ==
  {Raised, Parsed(Reuters, <<>>), Parsed(Reuters, <<E1>>),
   Parsed(Reuters, <<E2, E3>>), Parsed(NoTitle, <<E4>>)}

R1 ==
  [company |-> <<"V">>, ticker |-> <<"V", "-", "B">>, stance |-> "positive",
   evidence |-> "e1"]

\* no ticker field
R2 == [company |-> <<"V">>, stance |-> "negative", evidence |-> "e2"]

\* a ticker of white space
R3 ==
  [company |-> <<"A", "B">>, ticker |-> <<" ">>, stance |-> "neutral",
   evidence |-> "e3"]

Extractions(xs) == Response([extractions |-> xs])

SpecResponses ==
  {Raised, Response(NoneValue), Response(<<>>), Extractions(<<>>),
   Extractions(<<R1>>), Extractions(<<R2>>), Extractions(<<R3, R1>>),
   Extractions(<<R1, NonDict, R2>>)}

SpecNarratives == {Raised, [raises |-> FALSE, output_text |-> "report"]}

FetchFeed == FetchFeedFrom(SpecFeeds)

Classify == ClassifyFrom(SpecResponses)

Narrative == NarrativeFrom(SpecNarratives)

Init == InitWith(MaxFeeds)

Next ==
  \/ FetchFeed
  \/ Dedup
  \/ Classify
  \/ CheckRecords
  \/ Aggregate
  \/ Rank
  \/ WriteTopLists
  \/ Narrative
  \/ WriteReport
  \/ Rerun

Spec == Init /\ [][Next]_vars

(***************************************************************************)
(* Properties of whole runs, checked under Spec.                           *)
(***************************************************************************)
\* the stages before line 130
BeforeTopListsWrite == pc \in {"ingest", "classify", "aggregate", "rank", "write_top"}

\* aggregation was attempted: line 114 was reached and left
Aggregated ==
  \/ pc \in {"rank", "write_top", "narrative", "write_report"}
  \/ pc = "exited" /\ status \in {"done", "crashed"}

\* the narrative call of this run was made and raised
NarrativeFailed == narr_calls > 0 /\ narr_log[1].raises

\* C1 as claimed: no output file is written before narrative generation has
\* succeeded, so when the narrative call is about to be made, and when it has
\* failed, top_lists.json is exactly as it was before the run.
C1_NoWriteBeforeNarrative ==
  (pc = "narrative" \/ NarrativeFailed) => top_lists = before.top_lists

\* C1 amended: top_lists.json is written after aggregation and ranking and
\* before the narrative call. Up to line 130, and in a run that ends before it,
\* the file is as it was before the run; from the narrative call on, also when
\* that call fails, it holds exactly this run's summary. Only the report file
\* waits for the narrative call: it differs from before only in a finished run.
C1_TopListsWrittenBeforeNarrative ==
  /\ (BeforeTopListsWrite \/ status = "exit0" \/ failure = "KeyError")
       => top_lists = before.top_lists
  /\ (pc \in {"narrative", "write_report"} \/ NarrativeFailed \/ status = "done")
       => top_lists = <<Summary>>
  /\ status # "done" => reports = before.reports

\* a run whose narrative call failed, with top_lists.json replaced by its summary
C1_Witness ==
  /\ NarrativeFailed
  /\ status = "crashed"
  /\ top_lists = <<Summary>>
  /\ top_lists # before.top_lists
  /\ before.top_lists # <<>>

\* C2: a run whose record collection is empty after the classification loop
\* exits with status 0 having aggregated nothing, called the narrative service
\* never and written no file; no later stage is ever entered with no records.
C2_ZeroExtractionTermination ==
  /\ (pc = "exited" /\ records = <<>>)
       => /\ status = "exit0"
          /\ agg = <<>> /\ pos_top = <<>> /\ neg_top = <<>>
          /\ narr_calls = 0
          /\ Files = before
  /\ (pc \in {"aggregate", "rank", "write_top", "narrative", "write_report"})
       => records # <<>>

\* a run of two articles, one failed and one without extractions, that exited
\* with status 0 and left the earlier files alone
C2_Witness ==
  /\ pc = "exited"
  /\ status = "exit0"
  /\ Len(articles) = 2
  /\ Len(parse_calls) = 2
  /\ skipped = {1}
  /\ records = <<>>
  /\ top_lists = <<OldSummary>>

\* C3: when the narrative call raises, the run has ended in failure with the
\* error uncaught, the call was made once, no report text exists and every
\* report file is as it was before the run.
C3_NarrativeFailureFatal ==
  NarrativeFailed
    => /\ pc = "exited"
       /\ status = "crashed"
       /\ failure = "narrative"
       /\ narr_calls = 1
       /\ report_text = <<>>
       /\ reports = before.reports

\* a failed narrative call in a run that found an earlier report of the day
C3_Witness ==
  /\ NarrativeFailed
  /\ status = "crashed"
  /\ reports[day] = <<"old report">>

\* the records appended for article i: its back-references identify it, no
\* two deduplicated articles sharing title and url
RecordsFrom(i) ==
  {j \in 1..Len(records) :
     records[j].url = articles[i].url /\ records[j].title = articles[i].title}

CallsFor(i) == {c \in 1..Len(parse_calls) : parse_calls[c] = i}

\* C4 as claimed: an article whose classification raised, also while the
\* returned extractions were iterated, contributes no record and was sent to
\* the service exactly once.
C4_FailedArticleContributesNothing ==
  pc # "ingest"
    => \A i \in skipped : RecordsFrom(i) = {} /\ Cardinality(CallsFor(i)) = 1

\* what does hold of a failed article: the service was called once for every
\* article, an article whose call itself raised contributes nothing, and an
\* article that did not fail contributes every extraction returned for it
CallFailureContributesNothing ==
  pc # "ingest"
    => \A i \in 1..(ai - 1) :
         /\ Cardinality(CallsFor(i)) = 1
         /\ (i \in skipped /\ resp_log[i].raises) => RecordsFrom(i) = {}
         /\ i \notin skipped
              => Cardinality(RecordsFrom(i)) =
                   Len(Get(DataOf(resp_log[i]), "extractions", <<>>))

\* the table has one row per key with the three counts and the net
TableMatches(df, table) ==
  /\ Len(table) = Cardinality(KeysOf(df))
  /\ {table[i].key : i \in 1..Len(table)} = KeysOf(df)
  /\ \A i \in 1..Len(table) :
       /\ DOMAIN table[i] = {"key", "net"} \cup StanceColumns
       /\ \A s \in StanceColumns :
            table[i][s] =
              Cardinality({j \in 1..Len(df) :
                             KeyOf(df[j]) = table[i].key /\ df[j].stance = s})
       /\ table[i].positive + table[i].negative + table[i].neutral =
            Cardinality({j \in 1..Len(df) : KeyOf(df[j]) = table[i].key})
       /\ table[i].net = table[i].positive - table[i].negative

\* C6 as claimed: for every non-empty collection of records, aggregation
\* yields a table with exactly one row per key, holding the per-stance counts
\* (0 for a stance that does not occur) and net = positive - negative.
C6_AggregateTable == Aggregated => TableMatches(records, agg)

\* what does hold of the table: it is as C6 describes whenever aggregation
\* completes, that is, whenever some record has a ticker field
TableWhenAggregationCompletes ==
  (Aggregated /\ failure # "KeyError") => TableMatches(records, agg)

\* the identity key of the specification: the ticker when present and not
\* empty after trimming, else the lowercased company
TrimmedKey(r) ==
  IF "ticker" \in DOMAIN r /\ Strip(r.ticker) # <<>>
    THEN r.ticker
    ELSE Lower(r.company)

\* C7 as claimed: records are grouped by their ticker when it is present and
\* not empty after trimming and by their lowercased company otherwise, also
\* when the ticker is white space and when no record has a ticker.
C7_IdentityKey ==
  Aggregated
    => {agg[i].key : i \in 1..Len(agg)} =
         {TrimmedKey(records[j]) : j \in 1..Len(records)}

\* the lists of a summary, without its generated_at
ListsOf(file) ==
  [i \in 1..Len(file) |->
     [positives |-> file[i].positives, negatives |-> file[i].negatives]]

\* C10: a rerun on the calendar day of the first run, given the same feed
\* contents and service responses, ends as the first run did, with the same
\* lists in top_lists.json and the same text in the day's report file, each
\* file holding one write; the reports of other days are as the rerun found
\* them.
C10_RerunEquivalent ==
  (run > 1 /\ pc = "exited" /\ day = first.day)
    => /\ status = first.status
       /\ reports[day] = first.reports[day]
       /\ \A d \in Days \ {day} : reports[d] = before.reports[d]
       /\ ListsOf(top_lists) = ListsOf(first.top_lists)

\* a finished rerun of a finished run, on the same day, with a newer timestamp
C10_Witness ==
  /\ run = 2
  /\ pc = "exited"
  /\ status = "done"
  /\ day = first.day
  /\ reports[day] = <<"report">>
  /\ Len(pos_top) = 2
  /\ top_lists[1].generated_at # first.top_lists[1].generated_at

(***************************************************************************)
(* SpecBulk: ingestion and deduplication on feed lists long enough to pass *)
(* both caps. The first and the sixth feed are short and may repeat each   *)
(* other's keys; the others hold 51 entries, each with a url of its own,   *)
(* but the second may hold 49 and the third may repeat the second.         *)
(***************************************************************************)
MaxBulkFeeds == 6

BulkEntry(f, j) == [title |-> <<"K">>, link |-> ToString(100 * f + j)]

Bulk(f, n) == Parsed(NoTitle, [j \in 1..n |-> BulkEntry(f, j)])

ShortFeeds ==
  {Raised, Parsed(Reuters, <<>>), Parsed(Reuters, <<E1>>), Parsed(Reuters, <<E2>>),
   Parsed(Reuters, <<E4>>)}

BulkFeeds(f) ==
  CASE f \in {1, 6} -> ShortFeeds
    [] f = 2 -> {Raised, Bulk(f, FeedCap - 1), Bulk(f, FeedCap + 1)}
    [] f = 3 -> {Raised, Bulk(f - 1, FeedCap + 1), Bulk(f, FeedCap + 1)}
    [] OTHER -> {Raised, Bulk(f, FeedCap + 1)}

FetchBulkFeed == FetchFeedFrom(BulkFeeds(fi))

InitBulk == InitWith(MaxBulkFeeds)

NextBulk ==
  \/ FetchBulkFeed
  \/ Dedup

SpecBulk == InitBulk /\ [][NextBulk]_vars

\* the number of articles feed i of the log contributes
Kept(i) ==
  IF feed_log[i].raises THEN 0
  ELSE IF Len(feed_log[i].entries) > 50 THEN 50
  ELSE Len(feed_log[i].entries)

\* the number of articles of the feeds before feed i
RECURSIVE Offset(_)
Offset(i) == IF i <= 1 THEN 0 ELSE Offset(i - 1) + Kept(i - 1)

\* C9: during ingestion no failure ends the run; every feed read so far, one
\* that raised included, has been passed; and the articles are, in feed order
\* then entry order, the first 50 entries of each feed that did not raise,
\* a feed that raised contributing none.
C9_FeedFailureIsPerFeed ==
  pc = "ingest"
    => /\ status = "running" /\ failure = "none"
       /\ Len(feed_log) = fi - 1
       /\ fi <= nfeeds + 1
       /\ Len(articles) = Offset(fi)
       /\ \A i \in 1..(fi - 1) :
            \A j \in 1..Kept(i) :
              articles[Offset(i) + j] =
                ArticleOf(feed_log[i].feed, feed_log[i].entries[j])

\* all feeds read, one of which raised before a feed of more than 50
\* entries, and the run has gone on to deduplication and past it
C9_Witness ==
  /\ pc = "classify"
  /\ fi = nfeeds + 1
  /\ \E i \in 1..Len(feed_log) :
       /\ feed_log[i].raises
       /\ \E k \in (i + 1)..Len(feed_log) :
            ~feed_log[k].raises /\ Len(feed_log[k].entries) > 50
  /\ Len(articles) >= 50

\* the ingested sequence, as C9 gives it
Ingested ==
  [p \in 1..Offset(Len(feed_log) + 1) |->
     LET i == CHOOSE i \in 1..Len(feed_log) : Offset(i) < p /\ p <= Offset(i) + Kept(i)
     IN  ArticleOf(feed_log[i].feed, feed_log[i].entries[p - Offset(i)])]

\* the identity of an article: its title trimmed and lowercased, and its url
IdentityOf(a) == <<Lower(Strip(a.title)), a.url>>

\* C5: the deduplicated list has no two articles of one identity; it holds, in
\* their order, the first occurrences of the identities of the ingested
\* sequence, but only the first 200 of them; so its length is the number of
\* identities or 200, whichever is less.
C5_Deduplication ==
  pc = "classify"
    => LET inp == AsList(Ingested)
           ids == AsList([i \in 1..Len(inp) |-> IdentityOf(inp[i])])
           firsts == {i \in 1..Len(inp) : \A j \in 1..(i - 1) : ids[j] # ids[i]}
           place(i) == Cardinality({j \in firsts : j <= i})
       IN  /\ Len(articles) = Min(200, Cardinality(firsts))
           /\ Len(articles) <= 200
           /\ \A i \in firsts : place(i) <= 200 => articles[place(i)] = inp[i]
           /\ LET kept == AsList([p \in 1..Len(articles) |-> IdentityOf(articles[p])])
              IN  \A p \in 1..Len(articles) : \A q \in 1..(p - 1) : kept[p] # kept[q]

\* more than 200 identities were ingested, a repeated one among them, and
\* 200 articles were kept
C5_Witness ==
  /\ pc = "classify"
  /\ Len(articles) = 200
  /\ Offset(Len(feed_log) + 1) > 201
  /\ ~feed_log[1].raises /\ feed_log[1].entries = <<E1>>
  /\ ~feed_log[6].raises /\ feed_log[6].entries = <<E2>>

(***************************************************************************)
(* SpecRank: one article whose extractions name up to two companies of     *)
(* their own and a run of others, enough of them to pass the cap of the    *)
(* top lists; a company comes with the stances of one of four profiles.    *)
(***************************************************************************)
MaxRankFeeds == 1

MaxOver == 1

Profiles ==
  {<<"positive">>, <<"negative">>, <<"positive", "negative">>, <<"neutral">>}

Mentions(company, profile) ==
  [j \in 1..Len(profile) |-> company @@ [stance |-> profile[j], evidence |-> "e"]]

\* a company with a ticker that sorts before the others
First == [company |-> <<"A">>, ticker |-> <<"A">>]

\* a company without ticker, whose key sorts after the others
Last == [company |-> <<"V">>]

Digit(d) == Chars[d + 3]

Other(j) ==
  [company |-> <<"K">>, ticker |-> <<"K", Digit(j \div 10), Digit(j % 10)>>]

\* c other companies, with profile odd or even by their number
RECURSIVE Others(_, _, _)
Others(c, odd, even) ==
  IF c = 0 THEN <<>>
  ELSE Others(c - 1, odd, even) \o Mentions(Other(c), IF c % 2 = 1 THEN odd ELSE even)

RankExtractions ==
  {a \o b \o c :
     a \in {<<>>} \cup {Mentions(First, p) : p \in Profiles},
     b \in {<<>>} \cup {Mentions(Last, p) : p \in Profiles},
     c \in {<<>>} \cup {Others(n, p[1], p[2]) :
                          n \in (TopN - 1)..(TopN + MaxOver),
                          p \in Profiles \X Profiles}}

RankResponses == {Extractions(xs) : xs \in RankExtractions}

FetchRankFeed == FetchFeedFrom({Parsed(Reuters, <<E1>>)})

ClassifyRank == ClassifyFrom(RankResponses)

InitRank == InitWith(MaxRankFeeds)

NextRank ==
  \/ FetchRankFeed
  \/ Dedup
  \/ ClassifyRank
  \/ CheckRecords
  \/ Aggregate
  \/ Rank

SpecRank == InitRank /\ [][NextRank]_vars

\* row a is strictly better placed than row b in the list ranked by the
\* count `by`: a higher count, or the same count and a net that is higher
\* (lower, for the list of negatives)
Better(a, b, by) ==
  \/ a[by] > b[by]
  \/ a[by] = b[by] /\ IF by = "negative" THEN a.net < b.net ELSE a.net > b.net

\* list holds min(10, number of rows) rows of the table, no key twice, none
\* placed before a strictly better one, and no row left out is strictly
\* better than a row of the list
IsTopTen(list, table, by) ==
  /\ Len(list) = Min(10, Len(table))
  /\ \A p \in 1..Len(list) : \E i \in 1..Len(table) : list[p] = table[i]
  /\ \A p, q \in 1..Len(list) : list[p].key = list[q].key => p = q
  /\ \A p, q \in 1..Len(list) : p < q => ~Better(list[q], list[p], by)
  /\ \A i \in 1..Len(table) :
       (\A p \in 1..Len(list) : list[p].key # table[i].key)
         => \A p \in 1..Len(list) : ~Better(table[i], list[p], by)
  /\ Len(list) = 10 => Cardinality({table[i].key : i \in 1..Len(table)}) >= 10

\* C8: once the lists are ranked, the top-positive list is the first
\* min(10, number of keys) rows of the table by (positive descending, net
\* descending) and the top-negative list the first min(10, number of keys)
\* rows by (negative descending, net ascending).
C8_TopTenRanking ==
  pc = "write_top"
    => /\ IsTopTen(pos_top, agg, "positive")
       /\ IsTopTen(neg_top, agg, "negative")

\* twelve keys ranked: lists of ten, the negatives with two rows that tie on
\* the count and differ in net, and a key left out that ties with the last
C8_Witness ==
  /\ pc = "write_top"
  /\ Len(agg) = 12
  /\ Len(pos_top) = 10
  /\ Len(neg_top) = 10
  /\ \E p, q \in 1..10 :
       neg_top[p].negative = neg_top[q].negative /\ neg_top[p].net < neg_top[q].net
  /\ \E i \in 1..12 :
       /\ \A p \in 1..10 : neg_top[p].key # agg[i].key
       /\ agg[i].negative = neg_top[10].negative
       /\ agg[i].net = neg_top[10].net

====
